---- MODULE Spec2Model ----
(***************************************************************************)
(* Order-management REST API (src/app.py): the orders table and the       *)
(* handlers of /orders, /orders/<id> and /customers/number-of-products.   *)
(* Time is in whole seconds.  Spec runs the handlers one request at a     *)
(* time: a handler runs when the response of the request before it has    *)
(* left.  SpecConc interleaves two POST /orders requests between their    *)
(* existence query and their commit.  Request bodies that set order_id or *)
(* created_at are not among the inputs.                                   *)
(***************************************************************************)
EXTENDS Integers, Sequences, FiniteSets

\* ------------------------------------------------------------------ bounds
MaxOrders == 2      \* orders inserted in one behaviour

\* ------------------------------------------------------- program constants
Window == 60        \* timedelta(seconds=60)

\* --------------------------------------------------------------- catalogue
\* Rows of the customers table (no handler inserts or deletes them), and
\* the first_name of each.
Customers == {1, 2}
FirstNames == [c \in Customers |-> IF c = 1 THEN "ann" ELSE "bob"]
\* Rows of the products table: product_id -> name.
Products == [p \in {1, 2} |-> IF p = 1 THEN "pa" ELSE "pb"]

Quantities == {1, 2}
\* The instants at which requests arrive, in seconds.
Clock == {0, 1, 60}

\* ------------------------------------------------------------------- state
VARIABLES
    orders,     \* the orders table: sequence of rows in insertion order
    next_id,    \* the AUTOINCREMENT counter of orders.order_id
    now,        \* the clock (datetime.utcnow() and CURRENT_TIMESTAMP)
    last,       \* the response on its way to the client, NoRequest when none is
    pc,         \* SpecConc: each worker's position in create_order
    wdata,      \* SpecConc: each worker's request body
    wstatus,    \* SpecConc: each worker's response status
    wstamp,     \* SpecConc: the clock at each worker's commit
    raced       \* SpecConc: both workers were past the existence query at once

vars == <<orders, next_id, now, last, pc, wdata, wstatus, wstamp, raced>>
concvars == <<pc, wdata, wstatus, wstamp, raced>>

Workers == {1, 2}

\* ------------------------------------------------------------ request bodies
Required == {"customer_id", "product_id", "quantity"}

\* A POST body: the keys present, and the values of the keys that matter.
\* A key that is absent has value 0.
PostBody(keys, c, p, q) ==
    [keys |-> keys,
     customer_id |-> IF "customer_id" \in keys THEN c ELSE 0,
     product_id |-> IF "product_id" \in keys THEN p ELSE 0,
     quantity |-> IF "quantity" \in keys THEN q ELSE 0]

\* Bodies with exactly the three fields, with a key that is no attribute of
\* Order as well, and with fields missing.
PostBodies ==
    {PostBody(Required, c, p, q) :
        c \in Customers, p \in DOMAIN Products, q \in Quantities}
    \cup {PostBody(Required \cup {"unmapped"}, 1, 1, 1)}
    \cup {PostBody(keys, 1, 1, 1) : keys \in {{}} \cup {Required \ {k} : k \in Required}}

\* A PUT body: None, or the (key, value) pairs in the order of the JSON text.
Item(k, v) == [key |-> k, value |-> v]
Body(items) == [is_none |-> FALSE, items |-> items]
PutBodies ==
    {[is_none |-> TRUE, items |-> <<>>], Body(<<>>),
     Body(<<Item("customer_name", "ann")>>),
     Body(<<Item("customer_name", "zed")>>),
     Body(<<Item("product_name", "pa")>>),
     Body(<<Item("product_name", "pb")>>),
     Body(<<Item("product_name", "zz")>>),
     Body(<<Item("quantity", 1)>>),
     Body(<<Item("quantity", 2)>>),
     Body(<<Item("order_id", 1)>>),
     Body(<<Item("product_name", "pa"), Item("quantity", 2)>>),
     Body(<<Item("quantity", 2), Item("product_name", "zz")>>),
     Body(<<Item("product_name", "pb"), Item("customer_name", "zed")>>),
     Body(<<Item("quantity", 2), Item("order_id", 1)>>)}

\* ------------------------------------------------------------------ helpers
Row(id, c, p, q, t) ==
    [order_id |-> id, customer_id |-> c, product_id |-> p, quantity |-> q, created_at |-> t]

Rows(rows) == {rows[i] : i \in 1..Len(rows)}
Ids(rows) == {rows[i].order_id : i \in 1..Len(rows)}
\* The ids a URL may name: the stored ones and one that is not stored.
UrlIds == Ids(orders) \cup {next_id}

\* Order.query.get(order_id): the index of the row, 0 when there is none.
query_get(rows, order_id) ==
    IF \E i \in 1..Len(rows) : rows[i].order_id = order_id
    THEN CHOOSE i \in 1..Len(rows) : rows[i].order_id = order_id
    ELSE 0

\* A response: the status, the message of its JSON body (or what stands for
\* it) and the rows it lists; with it, the columns of the order that the
\* request had changed in its session when it ended.
NoRequest ==
    [op |-> "none", status |-> 0, message |-> "", payload |-> <<>>, dirty |-> {}]
Response(op, status, message, payload) ==
    [op |-> op, status |-> status, message |-> message, payload |-> payload, dirty |-> {}]

Init ==
    /\ orders = <<>>
    /\ next_id = 1
    /\ now = 0
    /\ last = NoRequest
    /\ pc = [w \in Workers |-> "idle"]
    /\ wdata = [w \in Workers |-> PostBody({}, 0, 0, 0)]
    /\ wstatus = [w \in Workers |-> 0]
    /\ wstamp = [w \in Workers |-> 0]
    /\ raced = FALSE

\* The clock advances to a later instant.
Tick ==
    /\ \E t \in Clock : t > now /\ now' = t
    /\ UNCHANGED <<orders, next_id, last>>
    /\ UNCHANGED concvars

\* --------------------------------------------------------- POST /orders
\* if not data or not all(key in data for key in allowed_attributes)
missing_data(data) == ~(Required \subseteq data.keys)

\* time_threshold without the timedelta subtracted.
time_threshold_now(t) == t

time_threshold(t) == t - Window

\* existing_order with created_at >= time_threshold.
existing_order_ge(rows, data, t) ==
    \E i \in 1..Len(rows) :
        /\ rows[i].customer_id = data.customer_id
        /\ rows[i].product_id = data.product_id
        /\ rows[i].created_at >= time_threshold(t)

\* Order.query.filter(customer_id ==, product_id ==, created_at > threshold).first()
existing_order(rows, data, t) ==
    \E i \in 1..Len(rows) :
        /\ rows[i].customer_id = data.customer_id
        /\ rows[i].product_id = data.product_id
        /\ rows[i].created_at > time_threshold(t)

\* new_order with quantity left at a default of 1.
new_order_default_quantity(data, id, t) ==
    [order_id |-> id, customer_id |-> data.customer_id, product_id |-> data.product_id,
     quantity |-> 1, created_at |-> t]

\* Order(**data) with the column defaults the insert fills in.
new_order(data, id, t) ==
    Row(id, data.customer_id, data.product_id, data.quantity, t)

\* violates_unique with the constraint on (customer_id, product_id) alone.
violates_unique_pair(rows, i, new) ==
    \E j \in 1..Len(rows) :
        /\ j # i
        /\ \/ rows[j].order_id = new.order_id
           \/ /\ rows[j].customer_id = new.customer_id
              /\ rows[j].product_id = new.product_id

\* The primary key and uq_customer_product_timestamp, for row `new` against
\* the rows `others`.
violates_unique(rows, i, new) ==
    \E j \in 1..Len(rows) :
        /\ j # i
        /\ \/ rows[j].order_id = new.order_id
           \/ /\ rows[j].customer_id = new.customer_id
              /\ rows[j].product_id = new.product_id
              /\ rows[j].created_at = new.created_at

\* The status of Order(**data); db.session.add(new_order); db.session.commit():
\* a key that is no attribute of Order raises TypeError, a constraint
\* violation raises IntegrityError, and Flask answers both with 500.
insert_status(rows, data, new) ==
    IF data.keys \ Required # {} THEN 500
    ELSE IF violates_unique(rows, 0, new) THEN 500
    ELSE 201

\* The response of POST /orders to `data` with the table `rows` at time t.
post_response(rows, data, new, t) ==
    IF missing_data(data) THEN Response("POST", 400, "Missing or invalid data", <<>>)
    ELSE IF existing_order(rows, data, t) THEN Response("POST", 400, "Order already placed", <<>>)
    ELSE IF insert_status(rows, data, new) = 201
         THEN Response("POST", 201, "Order created successfully", <<>>)
         ELSE Response("POST", 500, "Internal Server Error", <<>>)

create_order_POST(data) ==
    LET new == new_order(data, next_id, now)
        response == post_response(orders, data, new, now)
    IN  /\ last = NoRequest
        /\ response.status = 201 => next_id <= MaxOrders
        /\ last' = response
        /\ IF response.status = 201
           THEN /\ orders' = Append(orders, new)
                /\ next_id' = next_id + 1
           ELSE UNCHANGED <<orders, next_id>>
        /\ UNCHANGED now
        /\ UNCHANGED concvars

\* ---------------------------------------------------------- GET /orders
\* error_response is defined nowhere: the empty branch raises NameError and
\* Flask answers 500.
create_order_GET ==
    /\ last = NoRequest
    /\ last' = IF orders = <<>>
               THEN Response("GET_ORDERS", 500, "Internal Server Error", <<>>)
               ELSE Response("GET_ORDERS", 200, "orders", orders)
    /\ UNCHANGED <<orders, next_id, now>>
    /\ UNCHANGED concvars

\* ----------------------------------------------------- GET /orders/<id>
get_order_by_id_GET(order_id) ==
    LET i == query_get(orders, order_id)
    IN  /\ last = NoRequest
        /\ last' = IF i = 0
                   THEN Response("GET_ORDER", 404, "Not Found", <<>>)
                   ELSE Response("GET_ORDER", 200, "order", <<orders[i]>>)
        /\ UNCHANGED <<orders, next_id, now>>
        /\ UNCHANGED concvars

\* -------------------------------------------------- DELETE /orders/<id>
\* delete_row that deletes the first row of the table.
delete_row_first(rows, i) == Tail(rows)

\* db.session.delete(order); db.session.commit()
delete_row(rows, i) == SubSeq(rows, 1, i - 1) \o SubSeq(rows, i + 1, Len(rows))

get_order_by_id_DELETE(order_id) ==
    LET i == query_get(orders, order_id)
    IN  /\ last = NoRequest
        /\ last' = IF i = 0
                   THEN Response("DELETE", 404, "Not Found", <<>>)
                   ELSE Response("DELETE", 200, "Order deleted successfully", <<>>)
        /\ orders' = IF i = 0 THEN orders ELSE delete_row(orders, i)
        /\ UNCHANGED <<next_id, now>>
        /\ UNCHANGED concvars

\* ----------------------------------------------------- PUT /orders/<id>
allowed_attributes == {"customer_name", "product_name", "quantity"}

Keys(items) == {items[k].key : k \in 1..Len(items)}

\* if data is None or not set(data.keys()).issubset(allowed_attributes)
invalid_data(data) ==
    data.is_none \/ \E k \in 1..Len(data.items) : data.items[k].key \notin allowed_attributes

\* Product.query.filter_by(name=value).first(): the product_id, 0 for None.
product_by_name(value) ==
    IF \E p \in DOMAIN Products : Products[p] = value
    THEN CHOOSE p \in DOMAIN Products : Products[p] = value
    ELSE 0

\* for key, value in data.items(): the status the loop leaves with (200 when
\* it runs to the end) and the order object as the loop has changed it.
\* Customer has no attribute `name`: filter_by(name=value) raises
\* InvalidRequestError, which Flask answers with 500.
RECURSIVE update_loop(_, _, _)
update_loop(order, items, k) ==
    IF k > Len(items)
    THEN [status |-> 200, message |-> "Order updated successfully", order |-> order]
    ELSE LET key == items[k].key
             value == items[k].value
             product == product_by_name(value)
         IN  IF key = "customer_name"
             THEN [status |-> 500, message |-> "Internal Server Error", order |-> order]
             ELSE IF key = "product_name"
             THEN IF product = 0
                  THEN [status |-> 404, message |-> "Product not found", order |-> order]
                  ELSE update_loop([order EXCEPT !.product_id = product], items, k + 1)
             ELSE IF key = "quantity"
             THEN update_loop([order EXCEPT !.quantity = value], items, k + 1)
             ELSE [status |-> 403, message |-> "You cannot change the attribute", order |-> order]

\* put_commit that writes the changed columns to every row.
put_commit_all(rows, i, out) ==
    IF out.status = 200
    THEN [j \in 1..Len(rows) |->
            [rows[j] EXCEPT !.product_id = out.order.product_id,
                            !.quantity = out.order.quantity]]
    ELSE rows

\* The table after the request: db.session.commit() writes the changed order
\* when the loop ran to the end and no constraint is violated; a request
\* that returns early or raises never commits, and its session is discarded.
put_commit(rows, i, out) ==
    IF out.status = 200 /\ ~violates_unique(rows, i, out.order)
    THEN [rows EXCEPT ![i] = out.order]
    ELSE rows

Dirty(old, new) == {col \in {"product_id", "quantity"} : old[col] # new[col]}

\* The response to a PUT on the stored row i whose loop left with `out`: a
\* commit that violates the constraint raises IntegrityError, answered 500.
put_response(rows, i, out) ==
    LET raised == out.status = 200 /\ violates_unique(rows, i, out.order)
    IN  [op |-> "PUT",
         status |-> IF raised THEN 500 ELSE out.status,
         message |-> IF raised THEN "Internal Server Error" ELSE out.message,
         payload |-> <<>>,
         dirty |-> Dirty(rows[i], out.order)]

get_order_by_id_PUT(order_id, data) ==
    LET i == query_get(orders, order_id)
        out == update_loop(orders[i], data.items, 1)
    IN  /\ last = NoRequest
        /\ IF i = 0
           THEN last' = Response("PUT", 404, "Not Found", <<>>) /\ orders' = orders
           ELSE IF invalid_data(data)
           THEN last' = Response("PUT", 400, "Invalid or missing data", <<>>) /\ orders' = orders
           ELSE last' = put_response(orders, i, out) /\ orders' = put_commit(orders, i, out)
        /\ UNCHANGED <<next_id, now>>
        /\ UNCHANGED concvars

\* ------------------------------------- GET /customers/number-of-products
\* .join(Order, Customer.customer_id == Order.customer_id): the orders that
\* have a customer, each with it.
RECURSIVE join(_)
join(rows) ==
    IF rows = <<>> THEN <<>>
    ELSE IF Head(rows).customer_id \in Customers
         THEN <<Head(rows)>> \o join(Tail(rows))
         ELSE join(Tail(rows))

\* db.func.count(Order.customer_id) over the group of customer c.
RECURSIVE count(_, _)
count(joined, c) ==
    IF joined = <<>> THEN 0
    ELSE (IF Head(joined).customer_id = c THEN 1 ELSE 0) + count(Tail(joined), c)

\* group_by over an outer join: a customer without orders has a group too.
RECURSIVE group_by_outer(_, _)
group_by_outer(joined, c) ==
    IF c \notin Customers THEN <<>>
    ELSE <<[customer_id |-> c, total_products |-> count(joined, c)]>>
         \o group_by_outer(joined, c + 1)

\* .group_by(Customer.customer_id).all(): one entry for each group, here in
\* the order of customer_id, for the customers c..Cardinality(Customers).
RECURSIVE group_by(_, _)
group_by(joined, c) ==
    IF c \notin Customers THEN <<>>
    ELSE (IF count(joined, c) > 0
          THEN <<[customer_id |-> c, total_products |-> count(joined, c)]>>
          ELSE <<>>) \o group_by(joined, c + 1)

customers_query(rows) == group_by(join(rows), 1)

get_customers_by_products ==
    /\ last = NoRequest
    /\ last' = Response("GET_COUNTS", 200, "customers", customers_query(orders))
    /\ UNCHANGED <<orders, next_id, now>>
    /\ UNCHANGED concvars

\* return jsonify(...): the response leaves for the client; the next request
\* is handled after it.
send_response ==
    /\ last # NoRequest
    /\ last' = NoRequest
    /\ UNCHANGED <<orders, next_id, now>>
    /\ UNCHANGED concvars

Next ==
    \/ Tick
    \/ send_response
    \/ \E data \in PostBodies : create_order_POST(data)
    \/ create_order_GET
    \/ \E order_id \in UrlIds : get_order_by_id_GET(order_id)
    \/ \E order_id \in UrlIds, data \in PutBodies : get_order_by_id_PUT(order_id, data)
    \/ \E order_id \in UrlIds : get_order_by_id_DELETE(order_id)
    \/ get_customers_by_products

Spec == Init /\ [][Next]_vars

\* ------------------------------------- two POST /orders requests at once
\* Lines 51-65 of a worker's request: the body check and the existence query.
post_check(w, data) ==
    LET status == IF missing_data(data) \/ existing_order(orders, data, now) THEN 400 ELSE 0
    IN  /\ pc[w] = "idle"
        /\ wdata' = [wdata EXCEPT ![w] = data]
        /\ pc' = [pc EXCEPT ![w] = IF status = 400 THEN "done" ELSE "checked"]
        /\ wstatus' = [wstatus EXCEPT ![w] = status]
        /\ raced' = (raced \/ \A v \in Workers : pc'[v] = "checked")
        /\ UNCHANGED <<orders, next_id, now, last, wstamp>>

\* Lines 67-71 of a worker's request: the insert and the commit.
post_commit(w) ==
    LET new == new_order(wdata[w], next_id, now)
        status == insert_status(orders, wdata[w], new)
    IN  /\ pc[w] = "checked"
        /\ pc' = [pc EXCEPT ![w] = "done"]
        /\ wstatus' = [wstatus EXCEPT ![w] = status]
        /\ wstamp' = [wstamp EXCEPT ![w] = now]
        /\ IF status = 201
           THEN /\ orders' = Append(orders, new)
                /\ next_id' = next_id + 1
           ELSE UNCHANGED <<orders, next_id>>
        /\ UNCHANGED <<now, last, wdata, raced>>

NextConc ==
    \/ Tick
    \/ \E w \in Workers, data \in PostBodies : post_check(w, data)
    \/ \E w \in Workers : post_commit(w)

SpecConc == Init /\ [][NextConc]_vars

\* ------------------------------------------------------------------ claims
SamePair(r, data) == r.customer_id = data.customer_id /\ r.product_id = data.product_id

\* C1: one request at a time, on one clock: a POST /orders for a pair that
\* has a stored order created less than 60 seconds before the submission is
\* answered 400 and inserts nothing; a POST /orders whose body holds the three
\* fields, submitted when every stored order of its pair is 60 seconds old
\* or older, is answered 201 and inserts one order.
C1_DebounceWindow ==
    [][last'.op = "POST" =>
        \A data \in PostBodies :
            create_order_POST(data) =>
                /\ ({"customer_id", "product_id"} \subseteq data.keys
                      /\ \E i \in 1..Len(orders) :
                            /\ SamePair(orders[i], data)
                            /\ now - orders[i].created_at >= 0
                            /\ now - orders[i].created_at < Window)
                   => (last'.status = 400 /\ orders' = orders)
                /\ (data.keys = Required
                      /\ \A i \in 1..Len(orders) :
                            SamePair(orders[i], data) => now - orders[i].created_at >= Window)
                   => /\ last'.status = 201
                      /\ Len(orders') = Len(orders) + 1
                      /\ SubSeq(orders', 1, Len(orders)) = orders
                      /\ SamePair(orders'[Len(orders')], data)]_vars

\* C1 witness: an order of a pair was accepted exactly 60 seconds after
\* another of the same pair, and a further POST for the pair was rejected.
C1_Witness ==
    /\ last.op = "POST" /\ last.status = 400 /\ last.message = "Order already placed"
    /\ \E i, j \in 1..Len(orders) :
          /\ i < j
          /\ orders[i].customer_id = orders[j].customer_id
          /\ orders[i].product_id = orders[j].product_id
          /\ orders[j].created_at = now
          /\ orders[j].created_at - orders[i].created_at = Window

Abs(x) == IF x < 0 THEN -x ELSE x

\* Two stored orders of one customer and product created less than 60
\* seconds apart.
ClosePair(rows) ==
    \E i, j \in 1..Len(rows) :
        /\ i # j
        /\ rows[i].customer_id = rows[j].customer_id
        /\ rows[i].product_id = rows[j].product_id
        /\ Abs(rows[i].created_at - rows[j].created_at) < Window

\* C2: two POST /orders requests of one pair that both ran the existence
\* query before either committed, and committed at different instants less
\* than 60 seconds apart, both return 201 and leave two orders of the pair
\* created less than 60 seconds apart.
C2_RaceStoresDuplicates ==
    (/\ raced
     /\ \A w \in Workers : pc[w] = "done" /\ wdata[w].keys = Required
     /\ wdata[1].customer_id = wdata[2].customer_id
     /\ wdata[1].product_id = wdata[2].product_id
     /\ wstamp[1] # wstamp[2]
     /\ Abs(wstamp[1] - wstamp[2]) < Window)
    => /\ \A w \in Workers : wstatus[w] = 201
       /\ Len(orders) = 2
       /\ SamePair(orders[1], wdata[1]) /\ SamePair(orders[2], wdata[1])
       /\ ClosePair(orders)

\* C2 witness: both requests passed the query before either commit, both
\* were answered 201 and the table holds the duplicate.
C2_Witness ==
    /\ raced
    /\ \A w \in Workers : pc[w] = "done" /\ wstatus[w] = 201
    /\ wdata[1].customer_id = wdata[2].customer_id
    /\ wdata[1].product_id = wdata[2].product_id
    /\ Len(orders) = 2
    /\ ClosePair(orders)

\* C3: a POST /orders that is answered 201 appends exactly one order, with
\* the customer_id, product_id and quantity of its body, and leaves the other
\* orders as they were; one that is not answered 201 leaves the table as it
\* was; and a body without one of the three fields is answered 400.
C3_OneInsertOrNone ==
    [][last'.op = "POST" =>
        \A data \in PostBodies :
            create_order_POST(data) =>
                /\ ~({"customer_id", "product_id", "quantity"} \subseteq data.keys)
                    => (last'.status = 400 /\ orders' = orders)
                /\ last'.status = 201
                    => /\ Len(orders') = Len(orders) + 1
                       /\ SubSeq(orders', 1, Len(orders)) = orders
                       /\ orders'[Len(orders')].customer_id = data.customer_id
                       /\ orders'[Len(orders')].product_id = data.product_id
                       /\ orders'[Len(orders')].quantity = data.quantity
                /\ last'.status # 201 => orders' = orders]_vars

\* C3 witness: a POST was answered 201 and its order, of quantity 2, stands
\* last in the table after an earlier order.
C3_Witness ==
    /\ last.op = "POST" /\ last.status = 201
    /\ Len(orders) = 2
    /\ orders[2].quantity = 2
    /\ orders[2].created_at = now

\* C4: DELETE /orders/<id> of an id that is not stored is answered 404 and
\* leaves the table as it was; of a stored id it is answered 200 and removes
\* that order and no other; an id that is gone never comes back, and GET
\* /orders and GET /orders/<id> return stored orders only.
C4_DeleteRemoves ==
    [][/\ last'.op = "DELETE" =>
            \A order_id \in UrlIds :
                get_order_by_id_DELETE(order_id) =>
                    IF order_id \in Ids(orders)
                    THEN /\ last'.status = 200
                         /\ Ids(orders') = Ids(orders) \ {order_id}
                         /\ Len(orders') = Len(orders) - 1
                         /\ Rows(orders') \subseteq Rows(orders)
                    ELSE last'.status = 404 /\ orders' = orders
       /\ \A id \in 1..(next_id - 1) : id \notin Ids(orders) => id \notin Ids(orders')
       /\ last'.op \in {"GET_ORDERS", "GET_ORDER"} =>
            Rows(last'.payload) \subseteq Rows(orders')]_vars

\* C4 witness: a listing was returned that lacks an order deleted before it.
C4_Witness ==
    /\ last.op = "GET_ORDERS" /\ last.status = 200
    /\ \E id \in 1..(next_id - 1) : id \notin Ids(last.payload)

\* value is the name of no customer and of no product.
Unnamed(value) ==
    /\ \A c \in Customers : FirstNames[c] # value
    /\ \A p \in DOMAIN Products : Products[p] # value

\* C5: a PUT /orders/<id> on a stored order with a customer_name or
\* product_name that names no customer or product is answered 404 and leaves
\* the order as it was, whatever stands before that key in the body.
C5_UnknownNameIs404 ==
    [][last'.op = "PUT" =>
        \A order_id \in Ids(orders) : \A data \in PutBodies :
            (/\ get_order_by_id_PUT(order_id, data)
             /\ Keys(data.items) \subseteq {"customer_name", "product_name", "quantity"}
             /\ \E k \in 1..Len(data.items) :
                    /\ data.items[k].key \in {"customer_name", "product_name"}
                    /\ Unnamed(data.items[k].value))
            => (last'.status = 404 /\ orders' = orders)]_vars

\* C6: a PUT /orders/<id> that succeeds changes the columns its body names
\* and nothing else: product_name sets product_id to the id of the product of
\* that name, quantity sets quantity; customer_id, order_id, created_at, the
\* columns the body does not name and every other order stay as they were.
C6_OnlySubmittedFields ==
    [][(last'.op = "PUT" /\ last'.status = 200) =>
        \A order_id \in Ids(orders) : \A data \in PutBodies :
            get_order_by_id_PUT(order_id, data) =>
                LET i == query_get(orders, order_id)
                    items == data.items
                IN  /\ Len(orders') = Len(orders)
                    /\ \A j \in 1..Len(orders) : j # i => orders'[j] = orders[j]
                    /\ orders'[i].order_id = orders[i].order_id
                    /\ orders'[i].created_at = orders[i].created_at
                    /\ orders'[i].customer_id = orders[i].customer_id
                    /\ (\A k \in 1..Len(items) : items[k].key # "quantity")
                        => orders'[i].quantity = orders[i].quantity
                    /\ (\A k \in 1..Len(items) : items[k].key # "product_name")
                        => orders'[i].product_id = orders[i].product_id
                    /\ \A k \in 1..Len(items) :
                        /\ items[k].key = "product_name"
                            => Products[orders'[i].product_id] = items[k].value
                        /\ items[k].key = "quantity"
                            => orders'[i].quantity = items[k].value]_vars

\* C6 witness: a PUT succeeded whose commit wrote product_id and not
\* quantity, and the table holds another order as well.
C6_Witness ==
    /\ last.op = "PUT" /\ last.status = 200
    /\ last.dirty = {"product_id"}
    /\ Len(orders) = 2
    /\ orders[1].quantity # orders[2].quantity

\* C7: a PUT /orders/<id> on a stored order whose body holds a key other
\* than customer_name, product_name and quantity is answered 403 and leaves
\* the order as it was.
C7_ForbiddenKeyIs403 ==
    [][last'.op = "PUT" =>
        \A order_id \in Ids(orders) : \A data \in PutBodies :
            (/\ get_order_by_id_PUT(order_id, data)
             /\ ~data.is_none
             /\ ~(Keys(data.items) \subseteq {"customer_name", "product_name", "quantity"}))
            => (last'.status = 403 /\ orders' = orders)]_vars

\* C8: GET /orders is answered 404 when the table is empty and 200 with
\* every stored order when it is not.
C8_EmptyListingIs404 ==
    [][(last'.op = "GET_ORDERS" /\ create_order_GET) =>
        IF orders = <<>>
        THEN last'.status = 404
        ELSE last'.status = 200 /\ last'.payload = orders]_vars

Permutations(n) == {f \in [1..n -> 1..n] : \A a, b \in 1..n : f[a] = f[b] => a = b}
Permuted(rows, f) == [k \in 1..Len(rows) |-> rows[f[k]]]
OrdersOf(rows, c) == {k \in 1..Len(rows) : rows[k].customer_id = c}

\* C9: GET /customers/number-of-products returns one entry for each customer
\* that has a stored order, with total_products the number of stored orders
\* of that customer, and no entry for a customer without orders; the same
\* entries come back whatever the order of the rows in the table.
C9_CountsPerCustomer ==
    last.op = "GET_COUNTS" =>
        /\ last.status = 200
        /\ \A k \in 1..Len(last.payload) : last.payload[k].customer_id \in Customers
        /\ \A c \in Customers :
            LET entries == {k \in 1..Len(last.payload) : last.payload[k].customer_id = c}
                n == Cardinality(OrdersOf(orders, c))
            IN  IF n = 0 THEN entries = {}
                ELSE /\ Cardinality(entries) = 1
                     /\ \A k \in entries : last.payload[k].total_products = n
        /\ \A f \in Permutations(Len(orders)) :
            customers_query(Permuted(orders, f)) = last.payload

\* C9 witness: the counts were returned with one customer at two orders and
\* no entry for the other customer, who has none.
C9_Witness ==
    /\ last.op = "GET_COUNTS"
    /\ Len(last.payload) = 1
    /\ last.payload[1].total_products = 2
    /\ Len(orders) = 2

\* C10 as stated: whatever POST, PUT and DELETE requests ran one at a time,
\* no two stored orders of one customer and product are created less than
\* 60 seconds apart.
C10_NoClosePairEver == ~ClosePair(orders)

\* C10 as amended: on one clock, a POST /orders, a DELETE and a PUT that
\* leaves the product of its order as it was never turn a table without
\* such a pair into one with it.
C10_NoClosePairUnlessMoved ==
    [][(/\ ~ClosePair(orders)
        /\ last'.op = "PUT" =>
            (/\ Len(orders') = Len(orders)
             /\ \A i \in 1..Len(orders) : orders'[i].product_id = orders[i].product_id))
       => ~ClosePair(orders')]_vars

\* C10 witness: an order was accepted beside an order of the same pair
\* created exactly 60 seconds before it, and no pair is closer.
C10_Witness ==
    /\ last.op = "POST" /\ last.status = 201
    /\ Len(orders) = 2
    /\ orders[1].customer_id = orders[2].customer_id
    /\ orders[1].product_id = orders[2].product_id
    /\ orders[2].created_at - orders[1].created_at = Window
    /\ ~ClosePair(orders)
====
